---- MODULE Spec2Model ----
(***************************************************************************)
(* Model of package collections (src/operators.go): the generic Set, a Go   *)
(* map[T]struct{} used through value receivers.  A Set value is a reference *)
(* to a backing map, so the model keeps a heap of backing maps and lets the *)
(* operations act on references; the nil Set is the reference Nil.          *)
(* The unexported type set (src/operators.go:368-577) repeats the exported  *)
(* Set (149-358) statement for statement, so one model stands for both.     *)
(* A range over a map visits the keys in an order the runtime chooses: each *)
(* loop takes that order as an argument and the calling action draws it.    *)
(***************************************************************************)
EXTENDS Naturals, Integers, Sequences, FiniteSets, TLC

\* ------------------------------------------------------------------ bounds
MaxSets == 3        \* backing maps that may be allocated
MaxElem == 2        \* the element type T is sampled as 1..MaxElem
MaxLen  == 2        \* longest []T argument
MaxVal  == 3        \* the values a selector chooses between are 1..MaxVal
MaxCleanups == 3    \* most cleanup functions passed to a lifecycle helper

Elems == 1 .. MaxElem
Nil   == 0

\* A []T argument: the nil slice or a slice with items (possibly none).
NilSlice == [nil |-> TRUE, items |-> <<>>]
SeqsUpTo(n) == UNION {[1 .. k -> Elems] : k \in 0 .. n}
Slices == {NilSlice} \cup {[nil |-> FALSE, items |-> q] : q \in SeqsUpTo(MaxLen)}
Items(elements) == {elements.items[i] : i \in 1 .. Len(elements.items)}

\* The orders in which a range loop may visit the keys of a map.
Orders(keys) ==
  {q \in [1 .. Cardinality(keys) -> keys] :
     \A i, j \in 1 .. Cardinality(keys) : q[i] = q[j] => i = j}

\* ------------------------------------------------------------ error values
ErrNone          == "nil"
ErrNotFound      == "element is not in the Set"
ErrEmptyInput    == "elements array is nil or empty"
ErrNotAllPresent == "not all elements are in the Set"

\* ------------------------------------------------------------------- state
VARIABLES heap,     \* sequence of the allocated backing maps (sets of keys)
          last,     \* the last call: its operands, its outcome, the heap before it
          sel,      \* the last call of a conditional selector (If, TernaryOp, ...)
          flt,      \* a run of the two slice filters on one input
          opr,      \* a function that deferred OnPanicRun
          sd        \* a process that called CleanupWhenShutdown
vars == <<heap, last, sel, flt, opr, sd>>

\* The helpers outside the Set have a state of their own; each of the
\* specifications below runs one of them and leaves the others at rest.
AtRest == [pc |-> "rest"]

\* Outcome of one method call.
Out(h, err, panicked, ret, bool) ==
  [heap |-> h, err |-> err, panicked |-> panicked, ret |-> ret, bool |-> bool]

\* Reading a map value: a nil map reads as an empty map.
Map(h, s) == IF s = Nil THEN {} ELSE h[s]
\* Writing s[k] = struct{}{}: the caller has checked s # Nil.
Store(h, s, k) == [h EXCEPT ![s] = @ \cup {k}]
\* The builtin delete(s, k): a no-op on a nil map or an absent key.
Delete(h, s, k) == IF s = Nil THEN h ELSE [h EXCEPT ![s] = @ \ {k}]

\* -------------------------------------------------------------- operations
NewSet(h) == Out(Append(h, {}), ErrNone, FALSE, Len(h) + 1, FALSE)

\* Add that returns without storing the key.
AddNoInsert(h, s, element) ==
  IF s = Nil
    THEN Out(h, ErrNone, TRUE, Nil, FALSE)
    ELSE Out(h, ErrNone, FALSE, s, FALSE)
Add(h, s, element) ==
  IF s = Nil
    THEN Out(h, ErrNone, TRUE, Nil, FALSE)           \* assignment to entry in nil map
    ELSE Out(Store(h, s, element), ErrNone, FALSE, s, FALSE)

RECURSIVE AddAllLoop(_, _, _)
AddAllLoop(h, s, items) ==
  IF items = <<>>
    THEN Out(h, ErrNone, FALSE, s, FALSE)
    ELSE LET r == Add(h, s, Head(items))
         IN  IF r.panicked THEN r ELSE AddAllLoop(r.heap, s, Tail(items))
AddAll(h, s, elements) == AddAllLoop(h, s, elements.items)

Has(h, s, element) == element \in Map(h, s)

HasAllOf(h, s, elements) ==
  \A i \in 1 .. Len(elements.items) : elements.items[i] \in Map(h, s)

Size(h, s) == Cardinality(Map(h, s))

\* slice := make([]T, len(s)); for key := range s { slice[i] = key; i++ }
\* The slice starts as len(s) zero values (0 here) and is filled in the order
\* the range visits the keys.
RECURSIVE ToSliceLoop(_, _, _)
ToSliceLoop(slice, i, ord) ==
  IF ord = <<>> THEN slice
  ELSE ToSliceLoop([slice EXCEPT ![i] = Head(ord)], i + 1, Tail(ord))
\* ToSlice that stops one key short, leaving a zero value in the last place.
ToSliceOffByOne(h, s, ord) ==
  ToSliceLoop([i \in 1 .. Size(h, s) |-> 0], 1,
              SubSeq(ord, 1, Len(ord) - 1))
ToSlice(h, s, ord) == ToSliceLoop([i \in 1 .. Size(h, s) |-> 0], 1, ord)

\* Remove without the membership check: deletes and reports no error.
RemoveNoCheck(h, s, element) ==
  Out(Delete(h, s, element), ErrNone, FALSE, Nil, FALSE)
Remove(h, s, element) ==
  IF ~Has(h, s, element)
    THEN Out(h, ErrNotFound, FALSE, Nil, FALSE)
    ELSE Out(Delete(h, s, element), ErrNone, FALSE, Nil, FALSE)

\* MustRemove that drops the error instead of panicking.
MustRemoveNoPanic(h, s, element) ==
  Out(Remove(h, s, element).heap, ErrNone, FALSE, s, FALSE)
MustRemove(h, s, element) ==
  LET r == Remove(h, s, element)
  IN  IF r.err # ErrNone
        THEN Out(r.heap, r.err, TRUE, Nil, FALSE)     \* panic(err)
        ELSE Out(r.heap, ErrNone, FALSE, s, FALSE)

\* for _, v := range elements { delete(s, v) }
RECURSIVE DeleteAllLoop(_, _, _)
DeleteAllLoop(h, s, items) ==
  IF items = <<>> THEN h ELSE DeleteAllLoop(Delete(h, s, Head(items)), s, Tail(items))

\* RemoveAll that checks membership only after its delete loop has run.
RemoveAllNoPrescan(h, s, elements) ==
  IF elements.nil \/ Len(elements.items) = 0
    THEN Out(h, ErrEmptyInput, FALSE, Nil, FALSE)
    ELSE Out(DeleteAllLoop(h, s, elements.items),
             IF HasAllOf(h, s, elements) THEN ErrNone ELSE ErrNotAllPresent,
             FALSE, Nil, FALSE)
\* RemoveAll without the empty-input check.
RemoveAllAcceptsEmpty(h, s, elements) ==
  IF ~HasAllOf(h, s, elements)
    THEN Out(h, ErrNotAllPresent, FALSE, Nil, FALSE)
    ELSE Out(DeleteAllLoop(h, s, elements.items), ErrNone, FALSE, Nil, FALSE)
RemoveAll(h, s, elements) ==
  IF elements.nil \/ Len(elements.items) = 0
    THEN Out(h, ErrEmptyInput, FALSE, Nil, FALSE)
    ELSE IF ~HasAllOf(h, s, elements)
           THEN Out(h, ErrNotAllPresent, FALSE, Nil, FALSE)
           ELSE Out(DeleteAllLoop(h, s, elements.items), ErrNone, FALSE, Nil, FALSE)

MustRemoveAll(h, s, elements) ==
  LET r == RemoveAll(h, s, elements)
  IN  IF r.err # ErrNone
        THEN Out(r.heap, r.err, TRUE, Nil, FALSE)     \* panic(err)
        ELSE Out(r.heap, ErrNone, FALSE, s, FALSE)

\* A range that loses its place at a delete and misses the key after it.
RECURSIVE ClearLoopSkips(_, _, _)
ClearLoopSkips(h, s, ord) ==
  IF ord = <<>> THEN h
  ELSE IF Head(ord) \in Map(h, s)
         THEN ClearLoopSkips(Delete(h, s, Head(ord)), s,
                             IF Tail(ord) = <<>> THEN <<>> ELSE Tail(Tail(ord)))
         ELSE ClearLoopSkips(h, s, Tail(ord))
\* for k := range s { delete(s, k) }: a key deleted before it is reached is
\* not produced by the range.
RECURSIVE ClearLoop(_, _, _)
ClearLoop(h, s, ord) ==
  IF ord = <<>> THEN h
  ELSE IF Head(ord) \in Map(h, s)
         THEN ClearLoop(Delete(h, s, Head(ord)), s, Tail(ord))
         ELSE ClearLoop(h, s, Tail(ord))
\* Clear that empties nothing (it resets only its own copy of the receiver).
ClearLeavesMap(h, s, ord) == Out(h, ErrNone, FALSE, s, FALSE)
Clear(h, s, ord) == Out(ClearLoop(h, s, ord), ErrNone, FALSE, s, FALSE)

\* for key, value := range s { newSet[key] = value }
RECURSIVE CopyLoop(_, _, _)
CopyLoop(h, newSet, ord) ==
  IF ord = <<>> THEN h ELSE CopyLoop(Store(h, newSet, Head(ord)), newSet, Tail(ord))
\* Copy that hands back the receiver's own map.
CopyAlias(h, s, ord) == Out(h, ErrNone, FALSE, s, FALSE)
Copy(h, s, ord) ==
  LET newSet == Len(h) + 1
  IN  Out(CopyLoop(Append(h, {}), newSet, ord), ErrNone, FALSE, newSet, FALSE)

IsSuperSetOf(h, s, other) ==
  IF other = Nil \/ Size(h, other) = 0
    THEN TRUE
    ELSE \A key \in Map(h, other) : Has(h, s, key)

\* IsSubSetOf with the operands the wrong way round.
IsSubSetOfSwapped(h, s, other) == IsSuperSetOf(h, s, other)
IsSubSetOf(h, s, other) ==
  IF s = Nil \/ Size(h, s) = 0
    THEN TRUE
    ELSE \A key \in Map(h, s) : Has(h, other, key)

\* A range over other that misses the key after a delete when other is the
\* map being deleted from.
RECURSIVE DiffLoopSkips(_, _, _, _)
DiffLoopSkips(h, s, other, ord) ==
  IF ord = <<>> THEN h
  ELSE IF Head(ord) \in Map(h, other)
         THEN DiffLoopSkips(Remove(h, s, Head(ord)).heap, s, other,
                            IF s = other /\ Tail(ord) # <<>>
                              THEN Tail(Tail(ord)) ELSE Tail(ord))
         ELSE DiffLoopSkips(h, s, other, Tail(ord))
\* for key := range other { _ = s.Remove(key) }
RECURSIVE DiffLoop(_, _, _, _)
DiffLoop(h, s, other, ord) ==
  IF ord = <<>> THEN h
  ELSE IF Head(ord) \in Map(h, other)
         THEN DiffLoop(Remove(h, s, Head(ord)).heap, s, other, Tail(ord))
         ELSE DiffLoop(h, s, other, Tail(ord))
\* Diff that returns from inside its loop, after the first key.
DiffStopsEarly(h, s, other, ord) ==
  Out(DiffLoop(h, s, other, IF ord = <<>> THEN ord ELSE <<Head(ord)>>),
      ErrNone, FALSE, s, FALSE)
Diff(h, s, other, ord) == Out(DiffLoop(h, s, other, ord), ErrNone, FALSE, s, FALSE)

\* for key := range s { if !other.Has(key) { newSet.Add(key) } }
RECURSIVE NewDiffLoop(_, _, _, _)
NewDiffLoop(h, newSet, other, ord) ==
  IF ord = <<>> THEN h
  ELSE IF ~Has(h, other, Head(ord))
         THEN NewDiffLoop(Add(h, newSet, Head(ord)).heap, newSet, other, Tail(ord))
         ELSE NewDiffLoop(h, newSet, other, Tail(ord))
NewDiff(h, s, other, ord) ==
  LET n == NewSet(h)
  IN  Out(NewDiffLoop(n.heap, n.ret, other, ord), ErrNone, FALSE, n.ret, FALSE)

\* for key := range other { s.Add(key) }
RECURSIVE UnionLoop(_, _, _, _)
UnionLoop(h, s, other, ord) ==
  IF ord = <<>> THEN Out(h, ErrNone, FALSE, s, FALSE)
  ELSE IF Head(ord) \in Map(h, other)
         THEN LET r == Add(h, s, Head(ord))
              IN  IF r.panicked THEN r ELSE UnionLoop(r.heap, s, other, Tail(ord))
         ELSE UnionLoop(h, s, other, Tail(ord))
\* Union that returns its argument instead of its receiver.
UnionReturnsOther(h, s, other, ord) ==
  IF other = Nil \/ Size(h, other) = 0
    THEN Out(h, ErrNone, FALSE, other, FALSE)
    ELSE [UnionLoop(h, s, other, ord) EXCEPT !.ret = other]
Union(h, s, other, ord) ==
  IF other = Nil \/ Size(h, other) = 0
    THEN Out(h, ErrNone, FALSE, s, FALSE)
    ELSE UnionLoop(h, s, other, ord)

\* NewUnion that unions into the receiver instead of a copy.
NewUnionInPlace(h, s, other, ordS, ordO) == Union(h, s, other, ordO)
NewUnion(h, s, other, ordS, ordO) ==
  LET newSet == Copy(h, s, ordS)
  IN  Union(newSet.heap, newSet.ret, other, ordO)

\* for key := range s { if !other.Has(key) { _ = s.Remove(key) } }
RECURSIVE IntersectLoop(_, _, _, _)
IntersectLoop(h, s, other, ord) ==
  IF ord = <<>> THEN h
  ELSE IF Head(ord) \in Map(h, s) /\ ~Has(h, other, Head(ord))
         THEN IntersectLoop(Remove(h, s, Head(ord)).heap, s, other, Tail(ord))
         ELSE IntersectLoop(h, s, other, Tail(ord))
\* Intersect without the nil/empty short-circuit.
IntersectNoShortCircuit(h, s, other, ord) ==
  Out(IntersectLoop(h, s, other, ord), ErrNone, FALSE, s, FALSE)
Intersect(h, s, other, ord) ==
  IF other = Nil \/ Size(h, other) = 0
    THEN Out(h, ErrNone, FALSE, s, FALSE)
    ELSE Out(IntersectLoop(h, s, other, ord), ErrNone, FALSE, s, FALSE)

NewIntersect(h, s, other, ordS, ordC) ==
  LET newSet == Copy(h, s, ordS)
  IN  Intersect(newSet.heap, newSet.ret, other, ordC)

\* ----------------------------------------------------------------- actions
\* The Set values a caller can hold: the nil Set and every allocated map.
Handles == {Nil} \cup (1 .. Len(heap))

NoCall == [op |-> "none", s |-> Nil, other |-> Nil, element |-> 0,
           elements |-> NilSlice, err |-> ErrNone, panicked |-> FALSE,
           ret |-> Nil, bool |-> FALSE, slice |-> <<>>, pre |-> <<>>]

\* One method call made by the caller: the whole method runs, and its operands,
\* its outcome and the heap it started from are kept until the caller goes on.  Every
\* call action starts from the idle caller (last = NoCall).
Call(op, s, other, element, elements, r) ==
  /\ UNCHANGED <<sel, flt, opr, sd>>
  /\ heap' = r.heap
  /\ last' = [op |-> op, s |-> s, other |-> other, element |-> element,
              elements |-> elements, err |-> r.err, panicked |-> r.panicked,
              ret |-> r.ret, bool |-> r.bool, slice |-> <<>>, pre |-> heap]

Query(b) == Out(heap, ErrNone, FALSE, Nil, b)

Init ==
  /\ heap = <<>>
  /\ last = NoCall
  /\ sel = AtRest /\ flt = AtRest /\ opr = AtRest /\ sd = AtRest

\* The caller has looked at the outcome and goes on to its next call.
Return ==
  /\ last # NoCall
  /\ last' = NoCall
  /\ UNCHANGED <<heap, sel, flt, opr, sd>>

CallNewSet ==
  /\ last = NoCall
  /\ Len(heap) < MaxSets
  /\ Call("NewSet", Nil, Nil, 0, NilSlice, NewSet(heap))

CallAdd ==
  /\ last = NoCall
  /\ \E s \in Handles, e \in Elems : Call("Add", s, Nil, e, NilSlice, Add(heap, s, e))

CallAddAll ==
  /\ last = NoCall
  /\ \E s \in Handles, es \in Slices : Call("AddAll", s, Nil, 0, es, AddAll(heap, s, es))

CallRemove ==
  /\ last = NoCall
  /\ \E s \in Handles, e \in Elems :
       Call("Remove", s, Nil, e, NilSlice, Remove(heap, s, e))

CallMustRemove ==
  /\ last = NoCall
  /\ \E s \in Handles, e \in Elems :
       Call("MustRemove", s, Nil, e, NilSlice, MustRemove(heap, s, e))

CallRemoveAll ==
  /\ last = NoCall
  /\ \E s \in Handles, es \in Slices :
       Call("RemoveAll", s, Nil, 0, es, RemoveAll(heap, s, es))

CallMustRemoveAll ==
  /\ last = NoCall
  /\ \E s \in Handles, es \in Slices :
       Call("MustRemoveAll", s, Nil, 0, es, MustRemoveAll(heap, s, es))

CallClear ==
  /\ last = NoCall
  /\ \E s \in Handles : \E ord \in Orders(Map(heap, s)) :
       Call("Clear", s, Nil, 0, NilSlice, Clear(heap, s, ord))

CallCopy ==
  /\ last = NoCall
  /\ Len(heap) < MaxSets
  /\ \E s \in Handles : \E ord \in Orders(Map(heap, s)) :
       Call("Copy", s, Nil, 0, NilSlice, Copy(heap, s, ord))

CallToSlice ==
  /\ last = NoCall
  /\ \E s \in Handles : \E ord \in Orders(Map(heap, s)) :
       /\ UNCHANGED <<heap, sel, flt, opr, sd>>
       /\ last' = [NoCall EXCEPT !.op = "ToSlice", !.s = s,
                                 !.slice = ToSlice(heap, s, ord), !.pre = heap]

CallIsSuperSetOf ==
  /\ last = NoCall
  /\ \E s \in Handles, other \in Handles :
       Call("IsSuperSetOf", s, other, 0, NilSlice, Query(IsSuperSetOf(heap, s, other)))

CallIsSubSetOf ==
  /\ last = NoCall
  /\ \E s \in Handles, other \in Handles :
       Call("IsSubSetOf", s, other, 0, NilSlice, Query(IsSubSetOf(heap, s, other)))

CallDiff ==
  /\ last = NoCall
  /\ \E s \in Handles, other \in Handles : \E ord \in Orders(Map(heap, other)) :
       Call("Diff", s, other, 0, NilSlice, Diff(heap, s, other, ord))

CallNewDiff ==
  /\ last = NoCall
  /\ Len(heap) < MaxSets
  /\ \E s \in Handles, other \in Handles : \E ord \in Orders(Map(heap, s)) :
       Call("NewDiff", s, other, 0, NilSlice, NewDiff(heap, s, other, ord))

CallUnion ==
  /\ last = NoCall
  /\ \E s \in Handles, other \in Handles : \E ord \in Orders(Map(heap, other)) :
       Call("Union", s, other, 0, NilSlice, Union(heap, s, other, ord))

CallNewUnion ==
  /\ last = NoCall
  /\ Len(heap) < MaxSets
  /\ \E s \in Handles, other \in Handles :
       \E ordS \in Orders(Map(heap, s)), ordO \in Orders(Map(heap, other)) :
         Call("NewUnion", s, other, 0, NilSlice, NewUnion(heap, s, other, ordS, ordO))

CallIntersect ==
  /\ last = NoCall
  /\ \E s \in Handles, other \in Handles : \E ord \in Orders(Map(heap, s)) :
       Call("Intersect", s, other, 0, NilSlice, Intersect(heap, s, other, ord))

CallNewIntersect ==
  /\ last = NoCall
  /\ Len(heap) < MaxSets
  /\ \E s \in Handles, other \in Handles :
       \E ordS \in Orders(Map(heap, s)), ordC \in Orders(Map(heap, s)) :
         Call("NewIntersect", s, other, 0, NilSlice,
              NewIntersect(heap, s, other, ordS, ordC))

Next ==
  \/ Return
  \/ CallNewSet
  \/ CallAdd
  \/ CallAddAll
  \/ CallRemove
  \/ CallMustRemove
  \/ CallRemoveAll
  \/ CallMustRemoveAll
  \/ CallClear
  \/ CallCopy
  \/ CallToSlice
  \/ CallIsSuperSetOf
  \/ CallIsSubSetOf
  \/ CallDiff
  \/ CallNewDiff
  \/ CallUnion
  \/ CallNewUnion
  \/ CallIntersect
  \/ CallNewIntersect

Spec == Init /\ [][Next]_vars

\* ------------------------------------------------- conditional selectors
\* src/operators.go:1-37 (TernaryOp, TernaryOpFunc, If, IfFunc) and
\* src/choose/if.go (If, IfLazyL, IfLazyR).  The two branches have the values
\* a and b.  evalA / evalB count how often each branch has been evaluated: an
\* eager argument is evaluated once by the caller before the call, a producer
\* (func() T) each time the selector invokes it.
Vals == 1 .. MaxVal

Selected(fn, condition, a, b, ret, evalA, evalB) ==
  [pc |-> "returned", fn |-> fn, condition |-> condition, a |-> a, b |-> b,
   ret |-> ret, evalA |-> evalA, evalB |-> evalB]

\* if condition { return a }; return b            (both arguments eager)
TernaryOp(condition, a, b) ==
  Selected("TernaryOp", condition, a, b, IF condition THEN a ELSE b, 1, 1)

\* if condition { return a() }; return b()
TernaryOpFunc(condition, a, b) ==
  IF condition
    THEN Selected("TernaryOpFunc", condition, a, b, a, 1, 0)
    ELSE Selected("TernaryOpFunc", condition, a, b, b, 0, 1)

If(condition, a, b) ==
  Selected("If", condition, a, b, IF condition THEN a ELSE b, 1, 1)

IfFunc(condition, a, b) ==
  IF condition
    THEN Selected("IfFunc", condition, a, b, a, 1, 0)
    ELSE Selected("IfFunc", condition, a, b, b, 0, 1)

ChooseIf(condition, trueValue, falseValue) ==
  Selected("choose.If", condition, trueValue, falseValue,
           IF condition THEN trueValue ELSE falseValue, 1, 1)

\* trueValue is a producer, falseValue an eager argument.
IfLazyL(condition, trueValue, falseValue) ==
  IF condition
    THEN Selected("IfLazyL", condition, trueValue, falseValue, trueValue, 1, 1)
    ELSE Selected("IfLazyL", condition, trueValue, falseValue, falseValue, 0, 1)

\* IfLazyR that calls its producer before it tests the condition.
IfLazyREager(condition, trueValue, falseValue) ==
  Selected("IfLazyR", condition, trueValue, falseValue,
           IF condition THEN trueValue ELSE falseValue, 1, 1)
\* trueValue is an eager argument, falseValue a producer.
IfLazyR(condition, trueValue, falseValue) ==
  IF condition
    THEN Selected("IfLazyR", condition, trueValue, falseValue, trueValue, 1, 0)
    ELSE Selected("IfLazyR", condition, trueValue, falseValue, falseValue, 1, 1)

\* The parameters of each selector that are producers.
LazyA == {"TernaryOpFunc", "IfFunc", "IfLazyL"}
LazyB == {"TernaryOpFunc", "IfFunc", "IfLazyR"}

SelectInit ==
  /\ heap = <<>> /\ last = NoCall
  /\ sel = AtRest /\ flt = AtRest /\ opr = AtRest /\ sd = AtRest

CallTernaryOp ==
  /\ \E c \in BOOLEAN, a \in Vals, b \in Vals : sel' = TernaryOp(c, a, b)
  /\ UNCHANGED <<heap, last, flt, opr, sd>>
CallTernaryOpFunc ==
  /\ \E c \in BOOLEAN, a \in Vals, b \in Vals : sel' = TernaryOpFunc(c, a, b)
  /\ UNCHANGED <<heap, last, flt, opr, sd>>
CallIf ==
  /\ \E c \in BOOLEAN, a \in Vals, b \in Vals : sel' = If(c, a, b)
  /\ UNCHANGED <<heap, last, flt, opr, sd>>
CallIfFunc ==
  /\ \E c \in BOOLEAN, a \in Vals, b \in Vals : sel' = IfFunc(c, a, b)
  /\ UNCHANGED <<heap, last, flt, opr, sd>>
CallChooseIf ==
  /\ \E c \in BOOLEAN, a \in Vals, b \in Vals : sel' = ChooseIf(c, a, b)
  /\ UNCHANGED <<heap, last, flt, opr, sd>>
CallIfLazyL ==
  /\ \E c \in BOOLEAN, a \in Vals, b \in Vals : sel' = IfLazyL(c, a, b)
  /\ UNCHANGED <<heap, last, flt, opr, sd>>
CallIfLazyR ==
  /\ \E c \in BOOLEAN, a \in Vals, b \in Vals : sel' = IfLazyR(c, a, b)
  /\ UNCHANGED <<heap, last, flt, opr, sd>>

SelectNext ==
  \/ CallTernaryOp
  \/ CallTernaryOpFunc
  \/ CallIf
  \/ CallIfFunc
  \/ CallChooseIf
  \/ CallIfLazyL
  \/ CallIfLazyR

SpecSelect == SelectInit /\ [][SelectNext]_vars

\* ----------------------------------------------------------- slice filters
\* gslice.Filter (src/unnamed/part_000:40-50) and slices.AllThatSatisfies
\* (src/unnamed/part_001:76-88).  The predicate f is the set of the values it
\* accepts.  Each function yields the slice it returns and the argument slice
\* as it is afterwards.
Filtered(ret, s) == [ret |-> ret, s |-> s]

\* for _, v := range s { if f(v) { r = append(r, v) } }
RECURSIVE FilterLoop(_, _, _)
FilterLoop(r, items, f) ==
  IF items = <<>> THEN r
  ELSE FilterLoop(IF Head(items) \in f THEN Append(r, Head(items)) ELSE r,
                  Tail(items), f)

\* Filter that builds its result in the argument's own array (r := s[:0]).
FilterReusesInput(s, f) ==
  LET r == FilterLoop(<<>>, s.items, f)
  IN  Filtered([nil |-> FALSE, items |-> r],
               [s EXCEPT !.items = r \o SubSeq(s.items, Len(r) + 1, Len(s.items))])
Filter(s, f) ==
  Filtered([nil |-> FALSE, items |-> FilterLoop(<<>>, s.items, f)], s)

\* for _, v := range s { if f(v) { result = append(result, v) } }
RECURSIVE AllThatSatisfiesLoop(_, _, _)
AllThatSatisfiesLoop(result, items, f) ==
  IF items = <<>> THEN result
  ELSE AllThatSatisfiesLoop(
         IF Head(items) \in f THEN Append(result, Head(items)) ELSE result,
         Tail(items), f)

AllThatSatisfies(s, f) ==
  IF s.nil \/ Len(s.items) = 0
    THEN Filtered([nil |-> FALSE, items |-> <<>>], s)
    ELSE Filtered([nil |-> FALSE, items |-> AllThatSatisfiesLoop(<<>>, s.items, f)], s)

\* The input is drawn at the start; the two functions then run on it, in
\* either order.
FilterInit ==
  /\ heap = <<>> /\ last = NoCall
  /\ sel = AtRest /\ opr = AtRest /\ sd = AtRest
  /\ \E s \in Slices, f \in SUBSET Elems :
       flt = [pc |-> "run", s0 |-> s, s |-> s, f |-> f,
              doneFilter |-> FALSE, filter |-> NilSlice,
              doneAll |-> FALSE, all |-> NilSlice]

RunFilter ==
  /\ flt # AtRest /\ ~flt.doneFilter
  /\ LET r == Filter(flt.s, flt.f)
     IN  flt' = [flt EXCEPT !.doneFilter = TRUE, !.filter = r.ret, !.s = r.s]
  /\ UNCHANGED <<heap, last, sel, opr, sd>>

RunAllThatSatisfies ==
  /\ flt # AtRest /\ ~flt.doneAll
  /\ LET r == AllThatSatisfies(flt.s, flt.f)
     IN  flt' = [flt EXCEPT !.doneAll = TRUE, !.all = r.ret, !.s = r.s]
  /\ UNCHANGED <<heap, last, sel, opr, sd>>

FilterNext ==
  \/ RunFilter
  \/ RunAllThatSatisfies

SpecFilter == FilterInit /\ [][FilterNext]_vars

\* -------------------------------------------------------------- OnPanicRun
\* src/operators.go:87-101, run as `defer OnPanicRun(processRecovery,
\* handleRecovery, cleanups...)` by a function whose body then returns or
\* panics with a value.  The cleanups are numbered 1..cleanups; ran lists the
\* ones that have run, handled the values handleRecovery was called with.
OnPanicInit ==
  /\ heap = <<>> /\ last = NoCall
  /\ sel = AtRest /\ flt = AtRest /\ sd = AtRest
  /\ \E pr \in BOOLEAN, n \in 0 .. MaxCleanups :
       opr = [pc |-> "body", processRecovery |-> pr, cleanups |-> n,
              panicked |-> FALSE, value |-> 0, handled |-> <<>>, ran |-> <<>>]

\* The body of the deferring function returns without a panic.
BodyReturns ==
  /\ opr # AtRest /\ opr.pc = "body"
  /\ opr' = [opr EXCEPT !.pc = "deferred"]
  /\ UNCHANGED <<heap, last, sel, flt, sd>>

\* The body panics with a value.
BodyPanics ==
  /\ opr # AtRest /\ opr.pc = "body"
  /\ \E v \in Vals :
       opr' = [opr EXCEPT !.pc = "deferred", !.panicked = TRUE, !.value = v]
  /\ UNCHANGED <<heap, last, sel, flt, sd>>

\* if r := recover(); r != nil { if processRecovery { handleRecovery(r) } }
\* if cleanups == nil || len(cleanups) == 0 { return }
OnPanicRunRecover ==
  /\ opr # AtRest /\ opr.pc = "deferred"
  /\ opr' = [opr EXCEPT
       !.handled = IF opr.panicked /\ opr.processRecovery
                     THEN Append(@, opr.value) ELSE @,
       !.pc = IF opr.cleanups = 0 THEN "done" ELSE "cleanup"]
  /\ UNCHANGED <<heap, last, sel, flt, sd>>

\* for _, cleanup := range cleanups { cleanup() }: one pass of the loop.
OnPanicRunCleanup ==
  /\ opr # AtRest /\ opr.pc = "cleanup"
  /\ opr' = [opr EXCEPT
       !.ran = Append(@, Len(@) + 1),
       !.pc = IF Len(opr.ran) + 1 = opr.cleanups THEN "done" ELSE "cleanup"]
  /\ UNCHANGED <<heap, last, sel, flt, sd>>

OnPanicNext ==
  \/ BodyReturns
  \/ BodyPanics
  \/ OnPanicRunRecover
  \/ OnPanicRunCleanup

SpecOnPanic == OnPanicInit /\ [][OnPanicNext]_vars

\* ----------------------------------------------------- CleanupWhenShutdown
\* src/operators.go:123-139.  The call starts a goroutine (outer) that
\* registers the signals, starts a second goroutine (inner) that waits for a
\* signal and runs the cleanups, and then calls os.Exit(0).  The goroutines
\* and the arrival of signals interleave freely.
Signals == {"SIGINT", "SIGTERM"}
SigChanCap == 1
InterceptArgs ==
  {[nil |-> TRUE, sigs |-> {}]} \cup {[nil |-> FALSE, sigs |-> S] : S \in SUBSET Signals}

ShutdownInit ==
  /\ heap = <<>> /\ last = NoCall
  /\ sel = AtRest /\ flt = AtRest /\ opr = AtRest
  /\ \E is \in InterceptArgs, n \in 0 .. MaxCleanups :
       sd = [pc |-> "run", interceptSignals |-> is, cleanups |-> n,
             outer |-> "notStarted", inner |-> "notStarted",
             registered |-> {}, sigs |-> <<>>, received |-> {},
             ran |-> <<>>, exit |-> "none"]

Alive == sd # AtRest /\ sd.exit = "none"

\* CleanupWhenShutdown itself: go func() { ... }() and return.
CleanupWhenShutdown ==
  /\ Alive /\ sd.outer = "notStarted"
  /\ sd' = [sd EXCEPT !.outer = "notify"]
  /\ UNCHANGED <<heap, last, sel, flt, opr>>

\* outer: sigs := make(chan os.Signal, 1); default to SIGINT; signal.Notify.
OuterNotify ==
  /\ Alive /\ sd.outer = "notify"
  /\ sd' = [sd EXCEPT
       !.registered = IF sd.interceptSignals.nil \/ sd.interceptSignals.sigs = {}
                        THEN {"SIGINT"} ELSE sd.interceptSignals.sigs,
       !.outer = "spawn"]
  /\ UNCHANGED <<heap, last, sel, flt, opr>>

\* outer: go func() { <-sigs; cleanups }() starts the inner goroutine.
OuterSpawn ==
  /\ Alive /\ sd.outer = "spawn"
  /\ sd' = [sd EXCEPT !.inner = "receive", !.outer = "exit"]
  /\ UNCHANGED <<heap, last, sel, flt, opr>>

\* outer: os.Exit(0), the statement after the go statement.
OuterExit ==
  /\ Alive /\ sd.outer = "exit"
  /\ sd' = [sd EXCEPT !.exit = "helper", !.outer = "done"]
  /\ UNCHANGED <<heap, last, sel, flt, opr>>

\* inner: <-sigs blocks until the channel holds a signal.
InnerReceive ==
  /\ Alive /\ sd.inner = "receive" /\ sd.sigs # <<>>
  /\ sd' = [sd EXCEPT !.sigs = Tail(@),
                      !.inner = IF sd.cleanups = 0 THEN "done" ELSE "cleanup"]
  /\ UNCHANGED <<heap, last, sel, flt, opr>>

\* inner: for _, cleanup := range cleanups { cleanup() }: one pass.
InnerCleanup ==
  /\ Alive /\ sd.inner = "cleanup"
  /\ sd' = [sd EXCEPT
       !.ran = Append(@, Len(@) + 1),
       !.inner = IF Len(sd.ran) + 1 = sd.cleanups THEN "done" ELSE "cleanup"]
  /\ UNCHANGED <<heap, last, sel, flt, opr>>

\* A signal reaches the process: a registered one is sent to the channel
\* (dropped when the channel is full), any other one ends the process.
SignalArrives ==
  /\ Alive
  /\ \E sig \in Signals :
       sd' = IF sig \in sd.registered
               THEN [sd EXCEPT !.received = @ \cup {sig},
                               !.sigs = IF Len(@) < SigChanCap THEN Append(@, sig) ELSE @]
               ELSE [sd EXCEPT !.exit = "signal"]
  /\ UNCHANGED <<heap, last, sel, flt, opr>>

ShutdownNext ==
  \/ CleanupWhenShutdown
  \/ OuterNotify
  \/ OuterSpawn
  \/ OuterExit
  \/ InnerReceive
  \/ InnerCleanup
  \/ SignalArrives

SpecShutdown == ShutdownInit /\ [][ShutdownNext]_vars

\* -------------------------------------------------------------- properties
TypeOK ==
  /\ Len(heap) <= MaxSets
  /\ \A i \in 1 .. Len(heap) : heap[i] \subseteq Elems

\* The members of s before and after the last call.
Pre(s)  == Map(last.pre, s)
Post(s) == Map(heap, s)
\* The maps that existed before the last call are what they were.
HeapKept == \A i \in 1 .. Len(last.pre) : heap[i] = last.pre[i]
Fresh(ret) == ret = Len(last.pre) + 1 /\ Len(heap) = Len(last.pre) + 1
Mutators == {"Add", "AddAll", "Remove", "MustRemove", "RemoveAll",
             "MustRemoveAll", "Clear", "Union", "Intersect", "Diff"}
\* A mutating call changes no map but its receiver's.
OnlyReceiverChanges ==
  last.op \in Mutators =>
    /\ Len(heap) = Len(last.pre)
    /\ \A i \in 1 .. Len(last.pre) : i # last.s => heap[i] = last.pre[i]
NonEmptyInput == ~last.elements.nil /\ Len(last.elements.items) > 0

\* C1: RemoveAll is atomic: with a non-empty input holding at least one
\* non-member it returns the NotAllPresent error and the set keeps exactly its
\* members and Size, also when other elements of the input are members.
C1_RemoveAllAtomic ==
  (last.op = "RemoveAll" /\ NonEmptyInput /\ ~(Items(last.elements) \subseteq Pre(last.s)))
    => /\ last.err = ErrNotAllPresent
       /\ Post(last.s) = Pre(last.s)
       /\ Size(heap, last.s) = Size(last.pre, last.s)
       /\ heap = last.pre
C1_Witness ==
  /\ last.op = "RemoveAll"
  /\ last.s # Nil
  /\ Items(last.elements) \cap Pre(last.s) # {}
  /\ Items(last.elements) \ Pre(last.s) # {}
  /\ last.err = ErrNotAllPresent

\* C2: NewUnion, NewIntersect and NewDiff leave both operands as they were and
\* return a third instance; NewUnion's result is exactly the union; a later
\* mutation of the returned set changes neither operand.
C2_NewOpsKeepOperands ==
  /\ last.op \in {"NewUnion", "NewIntersect", "NewDiff"} =>
       /\ HeapKept
       /\ Fresh(last.ret)
       /\ last.ret \notin {last.s, last.other}
       /\ ~last.panicked
  /\ last.op = "NewUnion" => Post(last.ret) = Pre(last.s) \cup Pre(last.other)
  /\ OnlyReceiverChanges
C2_Witness ==
  /\ last.op = "NewUnion"
  /\ last.s # Nil /\ last.other # Nil /\ last.s # last.other
  /\ Pre(last.s) \ Pre(last.other) # {}
  /\ Pre(last.other) \ Pre(last.s) # {}
  /\ Post(last.ret) = Elems

\* C3: Copy returns a new set with exactly the receiver's members, and the two
\* are independent: a mutating call on one instance never changes the Size or
\* membership of any other instance.
C3_CopyIndependent ==
  /\ last.op = "Copy" =>
       /\ HeapKept
       /\ Fresh(last.ret)
       /\ last.ret # last.s
       /\ Post(last.ret) = Pre(last.s)
       /\ Size(heap, last.ret) = Size(last.pre, last.s)
  /\ last.op \in Mutators =>
       /\ Len(heap) = Len(last.pre)
       /\ \A i \in 1 .. Len(last.pre) :
            i # last.s =>
              /\ Map(heap, i) = Map(last.pre, i)
              /\ Size(heap, i) = Size(last.pre, i)
C3_Witness ==
  /\ last.op = "Copy"
  /\ last.s # Nil
  /\ Pre(last.s) # {}
  /\ Post(last.ret) = Pre(last.s)

C5_NewIntersectIsIntersection ==
  last.op = "NewIntersect" => Post(last.ret) = Pre(last.s) \cap Pre(last.other)

\* C6: Remove of a non-member returns the NotFound error and leaves the set
\* unchanged; Remove of a member returns no error, after which Has is false,
\* Size is one less and every other element's membership is unchanged.
C6_Remove ==
  last.op = "Remove" =>
    IF last.element \in Pre(last.s)
      THEN /\ last.err = ErrNone
           /\ ~Has(heap, last.s, last.element)
           /\ Size(heap, last.s) = Size(last.pre, last.s) - 1
           /\ \A x \in Elems \ {last.element} :
                Has(heap, last.s, x) = Has(last.pre, last.s, x)
      ELSE /\ last.err = ErrNotFound
           /\ heap = last.pre
C6_Witness ==
  /\ last.op = "Remove"
  /\ last.element \in Pre(last.s)
  /\ Pre(last.s) = Elems
  /\ last.err = ErrNone

\* C7: RemoveAll succeeds exactly when the input is non-empty and every
\* element of it (repeats included) is a member; an empty or absent input
\* fails with an error and changes nothing; on success the set is the previous
\* set minus the listed elements.
C7_RemoveAll ==
  last.op = "RemoveAll" =>
    /\ (last.err = ErrNone) <=>
         (NonEmptyInput /\ Items(last.elements) \subseteq Pre(last.s))
    /\ ~NonEmptyInput => last.err = ErrEmptyInput /\ heap = last.pre
    /\ last.err # ErrNone => heap = last.pre
    /\ last.err = ErrNone =>
         /\ Post(last.s) = Pre(last.s) \ Items(last.elements)
         /\ OnlyReceiverChanges
C7_Witness ==
  /\ last.op = "RemoveAll"
  /\ last.err = ErrNone
  /\ Len(last.elements.items) > Cardinality(Items(last.elements))
  /\ Post(last.s) # {}

\* C8: MustRemove panics exactly when the element is absent and MustRemoveAll
\* exactly when the input is empty/absent or holds a non-member; a panicking
\* call has not mutated the set; a call that does not panic has the effect of
\* Remove/RemoveAll and returns the receiver.
C8_Must ==
  /\ last.op = "MustRemove" =>
       /\ last.panicked <=> last.element \notin Pre(last.s)
       /\ last.panicked => heap = last.pre
       /\ ~last.panicked =>
            /\ Post(last.s) = Pre(last.s) \ {last.element}
            /\ heap = Remove(last.pre, last.s, last.element).heap
            /\ last.ret = last.s
  /\ last.op = "MustRemoveAll" =>
       /\ last.panicked <=>
            ~(NonEmptyInput /\ Items(last.elements) \subseteq Pre(last.s))
       /\ last.panicked => heap = last.pre
       /\ ~last.panicked =>
            /\ Post(last.s) = Pre(last.s) \ Items(last.elements)
            /\ heap = RemoveAll(last.pre, last.s, last.elements).heap
            /\ last.ret = last.s
C8_Witness ==
  /\ last.op = "MustRemove"
  /\ last.s # Nil /\ Pre(last.s) # {}
  /\ last.panicked

\* C9: Add on a set (an allocated instance) is an idempotent insertion: after
\* it Has(e) is true, Size has grown by 1 if e was absent and by 0 if present,
\* every other element's membership is unchanged, and a second Add(e) yields
\* the same Size and membership.
C9_AddIdempotent ==
  (last.op = "Add" /\ last.s # Nil) =>
    /\ ~last.panicked
    /\ Has(heap, last.s, last.element)
    /\ Size(heap, last.s) =
         Size(last.pre, last.s) + (IF last.element \in Pre(last.s) THEN 0 ELSE 1)
    /\ \A x \in Elems \ {last.element} :
         Has(heap, last.s, x) = Has(last.pre, last.s, x)
    /\ LET again == Add(heap, last.s, last.element).heap
       IN  /\ Map(again, last.s) = Post(last.s)
           /\ Size(again, last.s) = Size(heap, last.s)
C9_Witness ==
  /\ last.op = "Add"
  /\ last.s # Nil
  /\ last.element \notin Pre(last.s)
  /\ Pre(last.s) # {}

\* C10: s.IsSuperSetOf(other) is true exactly when every element of other is a
\* member of s, s.IsSubSetOf(other) exactly when every element of s is a
\* member of other (nil and empty operands included), and s.IsSubSetOf(other)
\* equals other.IsSuperSetOf(s).
C10_SubSuper ==
  /\ last.op = "IsSuperSetOf" =>
       (last.bool <=> Pre(last.other) \subseteq Pre(last.s))
  /\ last.op = "IsSubSetOf" =>
       /\ last.bool <=> Pre(last.s) \subseteq Pre(last.other)
       /\ last.bool <=> IsSuperSetOf(last.pre, last.other, last.s)
  /\ last.op \in {"IsSuperSetOf", "IsSubSetOf"} => heap = last.pre
C10_Witness ==
  /\ last.op = "IsSubSetOf"
  /\ last.s # Nil /\ last.other # Nil
  /\ Pre(last.s) # {}
  /\ Pre(last.s) # Pre(last.other)
  /\ last.bool

\* C11: ToSlice returns a slice of length Size holding each member exactly
\* once, and NewSet().AddAll(S.ToSlice()) has the same Size and membership as
\* S, whatever order the range produced.
C11_ToSliceRoundTrip ==
  last.op = "ToSlice" =>
    /\ heap = last.pre
    /\ Len(last.slice) = Size(last.pre, last.s)
    /\ \A e \in Pre(last.s) :
         Cardinality({i \in 1 .. Len(last.slice) : last.slice[i] = e}) = 1
    /\ LET n == NewSet(heap)
           r == AddAll(n.heap, n.ret, [nil |-> FALSE, items |-> last.slice])
       IN  /\ ~r.panicked
           /\ Map(r.heap, r.ret) = Pre(last.s)
           /\ Size(r.heap, r.ret) = Size(last.pre, last.s)
C11_Witness ==
  /\ last.op = "ToSlice"
  /\ last.s # Nil
  /\ Len(last.slice) >= 2
  /\ last.slice[1] > last.slice[2]

\* C12: Add, AddAll, MustRemove, MustRemoveAll, Clear, Union, Intersect and
\* Diff return the receiver itself, not a copy: a mutation made through the
\* returned value is seen through the receiver.
Chainable == {"Add", "AddAll", "MustRemove", "MustRemoveAll", "Clear",
              "Union", "Intersect", "Diff"}
C12_ChainingSameInstance ==
  (last.op \in Chainable /\ ~last.panicked) =>
    /\ last.ret = last.s
    /\ Len(heap) = Len(last.pre)
    /\ last.s # Nil =>
         /\ \A e \in Elems :
              LET r == Add(heap, last.ret, e)
              IN  /\ Map(r.heap, last.s) = Post(last.s) \cup {e}
                  /\ Size(r.heap, last.s) = Size(r.heap, last.ret)
         /\ \A ord \in Orders(Post(last.ret)) :
              Size(Clear(heap, last.ret, ord).heap, last.s) = 0
C12_Witness ==
  /\ last.op = "Union"
  /\ last.s # Nil /\ last.other # Nil /\ last.s # last.other
  /\ Post(last.s) # Pre(last.s)
  /\ Post(last.s) # Pre(last.other)
  /\ last.ret = last.s

\* C13: in every reachable state (failed calls included) Size equals the
\* number of distinct elements for which Has is true, Size is never negative,
\* and after Clear Size is 0.
C13_NoDuplicates ==
  /\ \A s \in Handles :
       /\ Size(heap, s) = Cardinality({e \in Elems : Has(heap, s, e)})
       /\ Size(heap, s) >= 0
  /\ last.op = "Clear" => Size(heap, last.s) = 0
C13_Witness ==
  /\ last.op = "Clear"
  /\ last.s # Nil
  /\ Pre(last.s) = Elems
  /\ Size(heap, last.s) = 0

\* C18: for distinct instances s and other, s.Diff(other) leaves s with
\* exactly the previous members of s that are not in other and leaves other
\* (and every other instance) unchanged; and after a returning Diff, Union or
\* Intersect the receiver holds what the New-prefixed form would have returned
\* on the same operands beforehand.
C18_InPlaceEqualsNew ==
  /\ (last.op = "Diff" /\ last.s # last.other) =>
       /\ Post(last.s) = Pre(last.s) \ Pre(last.other)
       /\ \A i \in 1 .. Len(last.pre) : i # last.s => heap[i] = last.pre[i]
  /\ last.op = "Diff" =>
       \A ordS \in Orders(Pre(last.s)) :
         LET r == NewDiff(last.pre, last.s, last.other, ordS)
         IN  Post(last.s) = Map(r.heap, r.ret)
  /\ (last.op = "Union" /\ ~last.panicked) =>
       \A ordS \in Orders(Pre(last.s)), ordO \in Orders(Pre(last.other)) :
         LET r == NewUnion(last.pre, last.s, last.other, ordS, ordO)
         IN  Post(last.s) = Map(r.heap, r.ret)
  /\ last.op = "Intersect" =>
       \A ordS \in Orders(Pre(last.s)), ordC \in Orders(Pre(last.s)) :
         LET r == NewIntersect(last.pre, last.s, last.other, ordS, ordC)
         IN  Post(last.s) = Map(r.heap, r.ret)
C18_Witness ==
  /\ last.op = "Diff"
  /\ last.s # Nil /\ last.other # Nil /\ last.s # last.other
  /\ Pre(last.s) \cap Pre(last.other) # {}
  /\ Pre(last.s) \ Pre(last.other) # {}
  /\ Pre(last.other) \ Pre(last.s) = {}

\* C19: Intersect, Diff and Clear delete inside the loop that ranges over the
\* keys; whatever order the keys are visited in, the final set is the same:
\* Intersect leaves the members of s that are in a non-empty other, Diff the
\* members of s not in other, Clear the empty set.
C19_OrderIndependent ==
  /\ last.op = "Clear" =>
       /\ Post(last.s) = {}
       /\ \A ord \in Orders(Pre(last.s)) :
            Clear(last.pre, last.s, ord).heap = heap
  /\ last.op = "Diff" =>
       /\ Post(last.s) = Pre(last.s) \ Pre(last.other)
       /\ \A ord \in Orders(Pre(last.other)) :
            Diff(last.pre, last.s, last.other, ord).heap = heap
  /\ (last.op = "Intersect" /\ Pre(last.other) # {}) =>
       /\ Post(last.s) = Pre(last.s) \cap Pre(last.other)
       /\ \A ord \in Orders(Pre(last.s)) :
            Intersect(last.pre, last.s, last.other, ord).heap = heap
C19_Witness ==
  /\ last.op = "Clear"
  /\ last.s # Nil
  /\ Cardinality(Orders(Pre(last.s))) >= 2
  /\ Post(last.s) = {}

\* C20: with the receiver as its own argument (the same backing map), Diff
\* leaves s empty, Intersect and Union leave s unchanged, IsSubSetOf and
\* IsSuperSetOf are true, and NewDiff returns an empty set and keeps s.
SelfCall == last.s # Nil /\ last.other = last.s
C20_SelfAliased ==
  /\ (last.op = "Diff" /\ SelfCall) => Post(last.s) = {} /\ last.ret = last.s
  /\ (last.op \in {"Intersect", "Union"} /\ SelfCall) =>
       /\ heap = last.pre
       /\ ~last.panicked
       /\ last.ret = last.s
  /\ (last.op \in {"IsSubSetOf", "IsSuperSetOf"} /\ SelfCall) => last.bool
  /\ (last.op = "NewDiff" /\ SelfCall) =>
       /\ Fresh(last.ret)
       /\ Post(last.ret) = {}
       /\ HeapKept
C20_Witness ==
  /\ last.op = "Diff"
  /\ SelfCall
  /\ Pre(last.s) = Elems
  /\ Post(last.s) = {}

\* C16: the lazy selectors (TernaryOpFunc, IfFunc, IfLazyL, IfLazyR) return the
\* selected branch's value, invoke the selected branch's producer exactly once
\* and never invoke the producer of the branch that is not selected.
C16_LazyEvaluatesSelected ==
  (sel # AtRest /\ sel.fn \in LazyA \cup LazyB) =>
    /\ sel.ret = (IF sel.condition THEN sel.a ELSE sel.b)
    /\ sel.fn \in LazyA => sel.evalA = (IF sel.condition THEN 1 ELSE 0)
    /\ sel.fn \in LazyB => sel.evalB = (IF sel.condition THEN 0 ELSE 1)
C16_Witness ==
  /\ sel # AtRest
  /\ sel.fn = "IfLazyR"
  /\ sel.condition
  /\ sel.a # sel.b
  /\ sel.ret = sel.a
  /\ sel.evalB = 0

\* C17: for every input slice (nil, empty or not) and every predicate,
\* gslice.Filter and slices.AllThatSatisfies return the same sequence: the
\* elements that satisfy the predicate, in their original order and with
\* their multiplicity; neither modifies its input.
Satisfying(items, f) == SelectSeq(items, LAMBDA v : v \in f)
C17_FiltersAgree ==
  flt # AtRest =>
    /\ flt.doneFilter => flt.filter.items = Satisfying(flt.s0.items, flt.f)
    /\ flt.doneAll => flt.all.items = Satisfying(flt.s0.items, flt.f)
    /\ (flt.doneFilter /\ flt.doneAll) => flt.filter = flt.all
    /\ flt.s = flt.s0
C17_Witness ==
  /\ flt # AtRest
  /\ flt.doneFilter /\ flt.doneAll
  /\ Len(flt.s0.items) = 2
  /\ flt.s0.items[1] = flt.s0.items[2]
  /\ Len(flt.filter.items) = 2
C17_WitnessNil ==
  /\ flt # AtRest
  /\ flt.doneFilter /\ flt.doneAll
  /\ flt.s0.nil
  /\ flt.filter = flt.all

AllCleanups(n) == [i \in 1 .. n |-> i]

\* C14: once CleanupWhenShutdown has been called, the process exits through
\* the helper only after an intercepted signal has been received and every
\* cleanup has run, in the order given.
C14_ExitAfterSignalAndCleanups ==
  (sd # AtRest /\ sd.exit = "helper") =>
    /\ sd.received # {}
    /\ sd.ran = AllCleanups(sd.cleanups)

\* C15: OnPanicRun as a deferred call runs the cleanups only when a panic
\* occurred; then every cleanup runs once, in the order given, and
\* handleRecovery is called with the recovered value exactly when
\* processRecovery is true.
C15_CleanupsOnlyOnPanic ==
  (opr # AtRest /\ opr.pc = "done") =>
    IF opr.panicked
      THEN /\ opr.ran = AllCleanups(opr.cleanups)
           /\ opr.handled = (IF opr.processRecovery THEN <<opr.value>> ELSE <<>>)
      ELSE /\ opr.ran = <<>>
           /\ opr.handled = <<>>
====
